---------------------------- MODULE Spec2Model ----------------------------
(***************************************************************************)
(* Discovery and TDMA scheduling over a shared wireless medium.            *)
(*                                                                         *)
(* Two programs of the repository are modelled, selected by prog:          *)
(*   "a1"     src/a1.py     BaseStation + Device: one discovery round, a   *)
(*                          slot schedule, periodic DATA transmissions.    *)
(*   "lab06"  src/lab06.py  CentralNode + RegularNode: repeated discovery  *)
(*                          rounds for the nodes still missing.            *)
(* and two harnesses that call handlers directly on enumerated inputs:     *)
(*   "mac"    the two CustomMacLayer.on_receive_pdu dispatch policies;     *)
(*   "bsunit" the coordinators' on_receive_pdu and create_schedule, fed    *)
(*            with an arbitrary sequence of discovery responses.           *)
(*                                                                         *)
(* The discrete-event engine (wsnsimpy) is not part of the repository.     *)
(* Its contract is: events fire in increasing time order, each handler     *)
(* runs to completion, a run stops before any event at time `until`, and   *)
(* the PHY hands a PDU to the MAC of every node in range unless the        *)
(* reception collided with another transmission.                           *)
(*                                                                         *)
(* Time is counted in integer ticks: 10 ms for a1, 100 ms for lab06, the   *)
(* finest durations the two programs use (their HELLO_TIMEOUT).  The       *)
(* source computes with floats in seconds; rounding is not modelled.       *)
(* Device.run and RegularNode.run only sleep in a loop and touch no        *)
(* state, so they contribute no action.                                    *)
(***************************************************************************)
EXTENDS Integers, Sequences, FiniteSets, TLC

(* ------------------------------ bounds -------------------------------- *)
\* Number of devices added by the harness (NUM_DEVICES is 10 in a1.py and
\* 50 in lab06.py; the model runs the same code on a smaller population).
NUM_DEVICES == 3
\* Longest time, in ticks, the PHY may take from send_pdu to the receivers'
\* callbacks.  Every PDU of the two programs has the same size (20), so one
\* run has one transmission time.
MaxTxDelay == 1
\* Calls a harness makes on one input.
MaxCalls == 4

(* ---------------------- program constants, a1.py ---------------------- *)
\* in ticks of 10 ms
BS_START_WAIT == 500
DISCOVERY_DURATION == 500
HELLO_TIMEOUT == 1
SLOT_DURATION == 10
SCHED_START_DELAY == 50
SIM_DURATION == 5000

(* --------------------- program constants, lab06.py -------------------- *)
\* in ticks of 100 ms
L6_DISCOVERY_DURATION == 50
L6_HELLO_TIMEOUT == 1
L6_RETRY_DISCOVERY_INTERVAL == 50
L6_SIM_UNTIL == 600

(* ------------------------------ encodings ----------------------------- *)
\* dest='broadcast'
Broadcast == -1
\* Python's None in an integer field
None == -1

Nodes == 0..NUM_DEVICES
Devices == 1..NUM_DEVICES

Range(s) == {s[i] : i \in 1..Len(s)}

\* The payload of a PDU; every PDU carries all the fields, the unused ones
\* at these defaults.
NoData == [ids |-> <<>>, num_devices |-> 0, dev_slots |-> <<>>, start_delay |-> 0]

PDU(type, src, dest, data) ==
    [type |-> type, src |-> src, dest |-> dest, data |-> data]

VARIABLES
    prog,                   \* which program or harness runs
    now,                    \* the simulator's clock
    timers,                 \* pending delayed_exec callbacks
    channel,                \* PDUs handed to the PHY and not yet received
    txDelay,                \* the PHY's transmission time of a PDU
    macLog,                 \* the MAC decisions of the latest delivery (in
                            \* the harness: of every call so far)
    delivered,              \* history: devices whose response reached node 0
    lost,                   \* history: some PDU collided and missed its receivers
    gotReq,                 \* history: devices handed a discovery request
    calls,                  \* harness: calls made so far
    mIn,                    \* harness "mac": the input under test
    \* a1: BaseStation
    bpc, bwake, discovered_devices, schedule,
    \* a1: Device
    slot_number, schedule_frame_length, start_delay,
    \* a1: history
    schedAt, txCount, lastTx, arrival, nCreate, nSched, builtFrom,
    \* lab06: CentralNode
    cpc, cwake, discovered_ids, missing_ids,
    \* lab06: RegularNode
    responded,
    \* lab06: history
    nDiscovery, roundsDone

commonVars == <<prog, now, timers, channel, txDelay, macLog, delivered, lost,
                gotReq, calls, mIn>>
a1Vars == <<bpc, bwake, discovered_devices, schedule, slot_number,
            schedule_frame_length, start_delay, schedAt, txCount, lastTx,
            arrival, nCreate, nSched, builtFrom>>
l6Vars == <<cpc, cwake, discovered_ids, missing_ids, responded,
            nDiscovery, roundsDone>>
vars == <<commonVars, a1Vars, l6Vars>>

(* ------------------------- the event queue ---------------------------- *)
\* Simulator(until=...)
Until == IF prog = "a1" THEN SIM_DURATION ELSE L6_SIM_UNTIL

PendingTimes ==
    {t.at : t \in timers} \cup {c.at : c \in channel}
    \cup (IF prog = "a1" THEN {bwake} ELSE {})
    \cup (IF prog = "lab06" /\ cpc # "done" THEN {cwake} ELSE {})

\* An event fires when no pending event is earlier and the run is not over.
\* Events of the same tick fire in any order.
Fireable(t) == t < Until /\ \A u \in PendingTimes : t <= u

SimEnded == \A u \in PendingTimes : u >= Until

(* ------------------------------- the PHY ------------------------------ *)
\* Every node is placed within TX_RANGE of every other one.
Receivers(pdu) == Nodes \ {pdu.src}

\* send_pdu at time t: the PDU is in the air for txDelay ticks.  It may
\* overlap every PDU still in the air, and each of them may overlap it.
Transmit(ch, pdu, t) ==
    {[c EXCEPT !.hit = TRUE] : c \in ch}
    \cup {[pdu |-> pdu, at |-> t + txDelay, hit |-> ch # {}]}

\* The sets of receivers that may miss a PDU.  All nodes are in mutual
\* range, so a transmission that overlapped another one collides at every
\* receiver or, the overlap being shorter than a tick, at none.
LostSets(c) == IF c.hit THEN {{}, Receivers(c.pdu)} ELSE {{}}

(* ------------------------- a1: MAC dispatch --------------------------- *)
\* Mutants of A1Mac: an unknown type raises; the DEV-HELLO branch forgets the
\* role test; the DATA branch forgets the destination test.
A1MacRaises(pdu, id) ==
    IF pdu.type = "BS-HELLO" /\ pdu.dest = Broadcast THEN "deliver"
    ELSE IF pdu.type = "DEV-HELLO" /\ id = 0 THEN "deliver"
    ELSE IF pdu.type = "SCHED" /\ pdu.dest = Broadcast THEN "deliver"
    ELSE IF pdu.type = "DATA"
         THEN IF id = 0 /\ pdu.dest = 0 THEN "deliver" ELSE "default"
    ELSE IF pdu.type \in {"BS-HELLO", "DEV-HELLO", "SCHED"} THEN "drop"
    ELSE "error"

A1MacNoRoleCheck(pdu, id) ==
    IF pdu.type = "BS-HELLO" /\ pdu.dest = Broadcast THEN "deliver"
    ELSE IF pdu.type = "DEV-HELLO" THEN "deliver"
    ELSE IF pdu.type = "SCHED" /\ pdu.dest = Broadcast THEN "deliver"
    ELSE IF pdu.type = "DATA"
         THEN IF id = 0 /\ pdu.dest = 0 THEN "deliver" ELSE "default"
    ELSE "drop"

A1MacDataAnyDest(pdu, id) ==
    IF pdu.type = "BS-HELLO" /\ pdu.dest = Broadcast THEN "deliver"
    ELSE IF pdu.type = "DEV-HELLO" /\ id = 0 THEN "deliver"
    ELSE IF pdu.type = "SCHED" /\ pdu.dest = Broadcast THEN "deliver"
    ELSE IF pdu.type = "DATA"
         THEN IF id = 0 THEN "deliver" ELSE "default"
    ELSE "drop"

A1Mac(pdu, id) ==
    IF pdu.type = "BS-HELLO" /\ pdu.dest = Broadcast THEN "deliver"
    ELSE IF pdu.type = "DEV-HELLO" /\ id = 0 THEN "deliver"
    ELSE IF pdu.type = "SCHED" /\ pdu.dest = Broadcast THEN "deliver"
    ELSE IF pdu.type = "DATA"
         THEN IF id = 0 /\ pdu.dest = 0 THEN "deliver" ELSE "default"
    ELSE "drop"

MacEntry(mac, pdu, id, decision) ==
    [mac |-> mac, type |-> pdu.type, dest |-> pdu.dest, node |-> id,
     decision |-> decision]

(* -------------------------- a1: BaseStation --------------------------- *)
\* Mutants of CreateSchedule: every device gets slot 0; every known device
\* id gets an entry, discovered or not.
CreateScheduleOneSlot(sch, disc) ==
    sch \o [i \in 1..Len(disc) |-> <<disc[i], 0>>]

CreateScheduleAll(sch, disc) ==
    sch \o [i \in 1..NUM_DEVICES |-> <<i, i - 1>>]

\* Mutant of CreateSchedule: the slots go to the discovered ids in id order.
CreateScheduleById(sch, disc) ==
    sch \o [i \in 1..Len(disc) |->
              <<CHOOSE x \in Range(disc) :
                    Cardinality({y \in Range(disc) : y < x}) = i - 1,
                i - 1>>]

CreateSchedule(sch, disc) ==
    sch \o [i \in 1..Len(disc) |-> <<disc[i], i - 1>>]

\* Mutant of BSOnReceive: no test for an id already discovered.
BSOnReceiveNoDedup(disc, pdu) ==
    IF pdu.type = "DEV-HELLO" THEN Append(disc, pdu.src) ELSE disc

BSOnReceive(disc, pdu) ==
    IF pdu.type = "DEV-HELLO" /\ pdu.src \notin Range(disc)
    THEN Append(disc, pdu.src)
    ELSE disc

\* Mutant of ScheduleAfterReceive: a response gets its slot on arrival.
ScheduleAfterReceiveAppend(sch, pdu) ==
    IF pdu.type = "DEV-HELLO" /\ \A i \in 1..Len(sch) : sch[i][1] # pdu.src
    THEN Append(sch, <<pdu.src, Len(sch)>>)
    ELSE sch

\* What BaseStation.on_receive_pdu does to self.schedule: neither branch
\* touches it.
ScheduleAfterReceive(sch, pdu) == sch

\* Mutant of SchedData: the count is the population, not the schedule's length.
SchedDataPopulation(sch) ==
    [NoData EXCEPT !.num_devices = NUM_DEVICES,
                   !.dev_slots = sch,
                   !.start_delay = SCHED_START_DELAY]

\* The payload of the SCHED message.
SchedData(sch) ==
    [NoData EXCEPT !.num_devices = Len(sch),
                   !.dev_slots = sch,
                   !.start_delay = SCHED_START_DELAY]

(* ----------------------------- a1: Device ----------------------------- *)
FrameLength(num_devices) == num_devices * SLOT_DURATION

\* Mutant of FindSlot: a device without an entry falls back to slot 0.
FindSlotDefault(dev_slots, id) ==
    LET hits == {i \in 1..Len(dev_slots) : dev_slots[i][1] = id}
    IN  IF hits = {} THEN 0
        ELSE dev_slots[CHOOSE i \in hits : \A j \in hits : i <= j][2]

\* The slot of the first entry of dev_slots naming id, None without one.
FindSlot(dev_slots, id) ==
    LET hits == {i \in 1..Len(dev_slots) : dev_slots[i][1] = id}
    IN  IF hits = {} THEN None
        ELSE dev_slots[CHOOSE i \in hits : \A j \in hits : i <= j][2]

\* Mutant of FirstFireDelay: the start delay is left out.
FirstFireDelayNoStart(sd, slot) == slot * SLOT_DURATION

FirstFireDelay(sd, slot) == sd + slot * SLOT_DURATION

\* Mutant of RearmAllowed: send_data never re-arms its timer.
RearmNever(t, frame) == FALSE

RearmAllowed(t, frame) == t + frame < SIM_DURATION

(* ------------------------------ a1: Init ------------------------------ *)
InitCommon(p) ==
    /\ prog = p
    /\ now = 0
    /\ timers = {}
    /\ channel = {}
    /\ txDelay \in 0..MaxTxDelay
    /\ macLog = {}
    /\ delivered = {}
    /\ lost = FALSE
    /\ gotReq = [d \in Devices |-> FALSE]
    /\ calls = 0

InitA1Vars ==
    /\ bpc = "start"
    /\ bwake = BS_START_WAIT
    /\ discovered_devices = <<>>
    /\ schedule = <<>>
    /\ slot_number = [d \in Devices |-> None]
    /\ schedule_frame_length = [d \in Devices |-> None]
    /\ start_delay = [d \in Devices |-> None]
    /\ schedAt = [d \in Devices |-> None]
    /\ txCount = [d \in Devices |-> 0]
    /\ lastTx = [d \in Devices |-> None]
    /\ arrival = <<>>
    /\ nCreate = 0
    /\ nSched = 0
    /\ builtFrom = <<>>

InitL6Vars ==
    /\ cpc = "wait_disc"
    /\ cwake = L6_DISCOVERY_DURATION
    /\ discovered_ids = <<>>
    /\ missing_ids = [i \in 1..NUM_DEVICES |-> i]
    /\ responded = [d \in Devices |-> FALSE]
    /\ nDiscovery = 0
    /\ roundsDone = 0

NoInput == [mac |-> "none", pdu |-> PDU("none", 0, 0, NoData), node |-> 0]

InitA1 == InitCommon("a1") /\ mIn = NoInput /\ InitA1Vars /\ InitL6Vars

(* ----------------------------- a1: actions ---------------------------- *)
\* BaseStation.run, from the first timeout to the second: broadcast BS-HELLO.
A1BsDiscovery ==
    /\ prog = "a1" /\ bpc = "start" /\ Fireable(bwake)
    /\ now' = bwake
    /\ channel' = Transmit(channel, PDU("BS-HELLO", 0, Broadcast, NoData), now')
    /\ bpc' = "discovery"
    /\ bwake' = now' + DISCOVERY_DURATION
    /\ UNCHANGED <<prog, timers, txDelay, macLog, delivered, lost, gotReq, calls, mIn,
                   discovered_devices, schedule, slot_number, schedule_frame_length,
                   start_delay, schedAt, txCount, lastTx, arrival, nCreate, nSched,
                   builtFrom, l6Vars>>

\* BaseStation.run, from the second timeout to the third: build the
\* schedule and broadcast it.  The third timeout ends at SIM_DURATION, where
\* the run stops, so the process is never resumed after it.
A1BsSchedule ==
    /\ prog = "a1" /\ bpc = "discovery" /\ Fireable(bwake)
    /\ now' = bwake
    /\ schedule' = CreateSchedule(schedule, discovered_devices)
    /\ nCreate' = nCreate + 1
    /\ builtFrom' = discovered_devices
    /\ channel' = Transmit(channel, PDU("SCHED", 0, Broadcast, SchedData(schedule')), now')
    /\ nSched' = nSched + 1
    /\ bpc' = "data"
    /\ bwake' = now' + (SIM_DURATION - now')
    /\ UNCHANGED <<prog, timers, txDelay, macLog, delivered, lost, gotReq, calls, mIn,
                   discovered_devices, slot_number, schedule_frame_length, start_delay,
                   schedAt, txCount, lastTx, arrival, l6Vars>>

\* The PHY hands one PDU to the MAC of each receiver, in node order; the
\* MAC policy decides, and the node handlers run:
\*   BaseStation.on_receive_pdu, Device.on_receive_pdu, Device.process_schedule.
A1Deliver(c) ==
    /\ prog = "a1" /\ c \in channel /\ Fireable(c.at)
    /\ now' = c.at
    /\ channel' = channel \ {c}
    /\ \E miss \in LostSets(c) :
       \E jit \in (IF c.pdu.type = "BS-HELLO"
                   THEN [Devices -> 0..HELLO_TIMEOUT]
                   ELSE {[d \in Devices |-> 0]}) :
         LET pdu == c.pdu
             rcv == Receivers(pdu) \ miss
             handed == {n \in rcv : A1Mac(pdu, n) = "deliver"}
             devs == handed \cap Devices
             slot == [d \in Devices |-> FindSlot(pdu.data.dev_slots, d)]
         IN  /\ macLog' = {MacEntry("a1", pdu, n, A1Mac(pdu, n)) : n \in rcv}
             /\ lost' = (lost \/ miss # {})
             /\ delivered' = IF pdu.type = "DEV-HELLO" /\ 0 \in rcv
                             THEN delivered \cup {pdu.src} ELSE delivered
             /\ arrival' = IF pdu.type = "DEV-HELLO" /\ 0 \in handed
                           THEN Append(arrival, pdu.src) ELSE arrival
             /\ gotReq' = [d \in Devices |->
                            gotReq[d] \/ (pdu.type = "BS-HELLO" /\ d \in devs)]
             /\ discovered_devices' = IF 0 \in handed
                                      THEN BSOnReceive(discovered_devices, pdu)
                                      ELSE discovered_devices
             /\ schedule' = IF 0 \in handed
                            THEN ScheduleAfterReceive(schedule, pdu)
                            ELSE schedule
             /\ IF pdu.type = "BS-HELLO"
                THEN /\ timers' = timers \cup
                          {[node |-> d, fn |-> "send_hello", at |-> now' + jit[d]] : d \in devs}
                     /\ UNCHANGED <<slot_number, schedule_frame_length, start_delay, schedAt>>
                ELSE IF pdu.type = "SCHED"
                THEN /\ start_delay' = [d \in Devices |->
                          IF d \in devs THEN pdu.data.start_delay ELSE start_delay[d]]
                     /\ schedule_frame_length' = [d \in Devices |->
                          IF d \in devs THEN FrameLength(pdu.data.num_devices)
                          ELSE schedule_frame_length[d]]
                     /\ slot_number' = [d \in Devices |->
                          IF d \in devs /\ slot[d] # None THEN slot[d] ELSE slot_number[d]]
                     /\ timers' = timers \cup
                          {[node |-> d, fn |-> "send_data",
                            at |-> now' + FirstFireDelay(start_delay'[d], slot_number'[d])] :
                           d \in {e \in devs : slot[e] # None}}
                     /\ schedAt' = [d \in Devices |->
                          IF d \in devs THEN now' ELSE schedAt[d]]
                ELSE UNCHANGED <<timers, slot_number, schedule_frame_length,
                                 start_delay, schedAt>>
    /\ UNCHANGED <<prog, txDelay, calls, mIn, bpc, bwake, txCount, lastTx, nCreate,
                   nSched, builtFrom, l6Vars>>

\* Device.send_hello
A1SendHello(t) ==
    /\ prog = "a1" /\ t \in timers /\ t.fn = "send_hello" /\ Fireable(t.at)
    /\ now' = t.at
    /\ timers' = timers \ {t}
    /\ channel' = Transmit(channel,
                        PDU("DEV-HELLO", t.node, 0, [NoData EXCEPT !.ids = <<t.node>>]),
                        now')
    /\ UNCHANGED <<prog, txDelay, macLog, delivered, lost, gotReq, calls, mIn,
                   a1Vars, l6Vars>>

\* Device.send_data
A1SendData(t) ==
    /\ prog = "a1" /\ t \in timers /\ t.fn = "send_data" /\ Fireable(t.at)
    /\ now' = t.at
    /\ IF now' < SIM_DURATION
       THEN /\ channel' = Transmit(channel, PDU("DATA", t.node, 0, NoData), now')
            /\ txCount' = [txCount EXCEPT ![t.node] = @ + 1]
            /\ lastTx' = [lastTx EXCEPT ![t.node] = now']
            /\ timers' = (timers \ {t}) \cup
                 (IF RearmAllowed(now', schedule_frame_length[t.node])
                  THEN {[node |-> t.node, fn |-> "send_data",
                         at |-> now' + schedule_frame_length[t.node]]}
                  ELSE {})
       ELSE /\ timers' = timers \ {t}
            /\ UNCHANGED <<channel, txCount, lastTx>>
    /\ UNCHANGED <<prog, txDelay, macLog, delivered, lost, gotReq, calls, mIn, bpc,
                   bwake, discovered_devices, schedule, slot_number,
                   schedule_frame_length, start_delay, schedAt, arrival, nCreate,
                   nSched, builtFrom, l6Vars>>

NextA1 ==
    \/ A1BsDiscovery
    \/ A1BsSchedule
    \/ \E c \in channel : A1Deliver(c)
    \/ \E t \in timers : A1SendHello(t)
    \/ \E t \in timers : A1SendData(t)

(* ------------------------ lab06: MAC dispatch ------------------------- *)
L6Mac(pdu, id) ==
    IF pdu.type \in {"DISCOVERY", "HELLO"} THEN "deliver" ELSE "default"

(* ------------------------- lab06: CentralNode ------------------------- *)
\* Mutant of MissingList: the discovered ids are not taken out.
MissingListAll(disc) == [i \in 1..NUM_DEVICES |-> i]

\* Mutant of MissingList: the ids are taken from range(NUM_DEVICES).
MissingListFromZero(disc) ==
    SelectSeq([i \in 1..NUM_DEVICES |-> i - 1], LAMBDA i : i \notin Range(disc))

\* [i for i in range(1, NUM_DEVICES + 1) if i not in self.discovered_ids]
MissingList(disc) ==
    SelectSeq([i \in 1..NUM_DEVICES |-> i], LAMBDA i : i \notin Range(disc))

\* Mutant of LoopContinues: the loop never tests for convergence.
LoopForever(missing) == TRUE

\* while self.missing_ids:
LoopContinues(missing) == missing # <<>>

\* Mutants of CentralOnReceive: no test for an id already discovered; the
\* type tag of the other program.
CentralOnReceiveNoDedup(disc, pdu) ==
    IF pdu.type = "HELLO" THEN Append(disc, pdu.src) ELSE disc

CentralOnReceiveWrongType(disc, pdu) ==
    IF pdu.type = "DEV-HELLO" /\ pdu.src \notin Range(disc)
    THEN Append(disc, pdu.src)
    ELSE disc

CentralOnReceive(disc, pdu) ==
    IF pdu.type = "HELLO" /\ pdu.src \notin Range(disc)
    THEN Append(disc, pdu.src)
    ELSE disc

\* Mutant of DiscoveryData: every request carries the full list.
DiscoveryDataAll(missing) == [NoData EXCEPT !.ids = [i \in 1..NUM_DEVICES |-> i]]

\* The payload of the DISCOVERY message: data=self.missing_ids
DiscoveryData(missing) == [NoData EXCEPT !.ids = missing]

(* ------------------------- lab06: RegularNode ------------------------- *)
\* Mutant of MustRespond: every request is answered.
MustRespondAlways(resp, id, pdu) == TRUE

\* if not self.responded or self.id in pdu.data
MustRespond(resp, id, pdu) == ~resp \/ id \in Range(pdu.data.ids)

InitLab06 == InitCommon("lab06") /\ mIn = NoInput /\ InitA1Vars /\ InitL6Vars

(* ---------------------------- lab06: actions -------------------------- *)
\* CentralNode.run, from the timeout of line 23 to the one of line 32:
\* broadcast DISCOVERY with the ids still missing.
L6Broadcast ==
    /\ prog = "lab06" /\ cpc = "wait_disc" /\ Fireable(cwake)
    /\ now' = cwake
    /\ channel' = Transmit(channel,
                     PDU("DISCOVERY", 0, Broadcast, DiscoveryData(missing_ids)), now')
    /\ cpc' = "wait_retry"
    /\ cwake' = now' + L6_RETRY_DISCOVERY_INTERVAL
    /\ nDiscovery' = nDiscovery + 1
    /\ UNCHANGED <<prog, timers, txDelay, macLog, delivered, lost, gotReq, calls, mIn,
                   a1Vars, discovered_ids, missing_ids, responded, roundsDone>>

\* CentralNode.run, from the timeout of line 32 through the loop test to the
\* timeout of line 23 or to the end of run: recompute missing_ids.
L6Update ==
    /\ prog = "lab06" /\ cpc = "wait_retry" /\ Fireable(cwake)
    /\ now' = cwake
    /\ missing_ids' = MissingList(discovered_ids)
    /\ roundsDone' = roundsDone + 1
    /\ IF LoopContinues(missing_ids')
       THEN cpc' = "wait_disc" /\ cwake' = now' + L6_DISCOVERY_DURATION
       ELSE cpc' = "done" /\ cwake' = cwake
    /\ UNCHANGED <<prog, timers, channel, txDelay, macLog, delivered, lost, gotReq,
                   calls, mIn, a1Vars, discovered_ids, responded, nDiscovery>>

\* The PHY hands one PDU to the MAC of each receiver; the node handlers are
\* CentralNode.on_receive_pdu and RegularNode.on_receive_pdu.
L6Deliver(c) ==
    /\ prog = "lab06" /\ c \in channel /\ Fireable(c.at)
    /\ now' = c.at
    /\ channel' = channel \ {c}
    /\ \E miss \in LostSets(c) :
         LET pdu == c.pdu
             rcv == Receivers(pdu) \ miss
             handed == {n \in rcv : L6Mac(pdu, n) = "deliver"}
             resp == {d \in handed \cap Devices :
                        pdu.type = "DISCOVERY" /\ MustRespond(responded[d], d, pdu)}
         IN  /\ macLog' = {MacEntry("lab06", pdu, n, L6Mac(pdu, n)) : n \in rcv}
             /\ lost' = (lost \/ miss # {})
             /\ gotReq' = [d \in Devices |->
                            gotReq[d] \/ (pdu.type = "DISCOVERY" /\ d \in handed)]
             /\ delivered' = IF pdu.type = "HELLO" /\ 0 \in rcv
                             THEN delivered \cup {pdu.src} ELSE delivered
             /\ discovered_ids' = IF 0 \in handed
                                  THEN CentralOnReceive(discovered_ids, pdu)
                                  ELSE discovered_ids
             /\ responded' = [d \in Devices |-> responded[d] \/ d \in resp]
             /\ \E jit \in [resp -> 0..L6_HELLO_TIMEOUT] :
                  timers' = timers \cup
                     {[node |-> d, fn |-> "send_hello", at |-> now' + jit[d]] : d \in resp}
    /\ UNCHANGED <<prog, txDelay, calls, mIn, a1Vars, cpc, cwake, missing_ids,
                   nDiscovery, roundsDone>>

\* RegularNode.send_hello
L6SendHello(t) ==
    /\ prog = "lab06" /\ t \in timers /\ t.fn = "send_hello" /\ Fireable(t.at)
    /\ now' = t.at
    /\ timers' = timers \ {t}
    /\ channel' = Transmit(channel, PDU("HELLO", t.node, 0, NoData), now')
    /\ UNCHANGED <<prog, txDelay, macLog, delivered, lost, gotReq, calls, mIn,
                   a1Vars, l6Vars>>

NextLab06 ==
    \/ L6Broadcast
    \/ L6Update
    \/ \E c \in channel : L6Deliver(c)
    \/ \E t \in timers : L6SendHello(t)

(* --------------------------- harness "mac" ---------------------------- *)
MsgTypes == {"BS-HELLO", "DEV-HELLO", "SCHED", "DATA", "DISCOVERY", "HELLO", "ACK"}

InitMac ==
    /\ InitCommon("mac") /\ InitA1Vars /\ InitL6Vars
    /\ \E mac \in {"a1", "lab06"}, type \in MsgTypes, node \in Nodes :
       \E src \in Nodes \ {node}, dest \in {Broadcast} \cup Nodes :
         mIn = [mac |-> mac, pdu |-> PDU(type, src, dest, NoData), node |-> node]

\* One call of CustomMacLayer.on_receive_pdu on the input under test.
MacReceive ==
    /\ prog = "mac" /\ calls < MaxCalls
    /\ calls' = calls + 1
    /\ macLog' = macLog \cup
         {MacEntry(mIn.mac, mIn.pdu, mIn.node,
                   IF mIn.mac = "a1" THEN A1Mac(mIn.pdu, mIn.node)
                   ELSE L6Mac(mIn.pdu, mIn.node))}
    /\ UNCHANGED <<prog, now, timers, channel, txDelay, delivered, lost, gotReq, mIn,
                   a1Vars, l6Vars>>

(* -------------------------- harness "bsunit" -------------------------- *)
\* The two coordinators outside a run: BaseStation.on_receive_pdu and
\* CentralNode.on_receive_pdu are called on any sequence of responses,
\* repeated ones too, and create_schedule is called once, as run does, at
\* any point of that sequence, so that responses arrive before and after it.
InitBsUnit ==
    /\ InitCommon("bsunit") /\ mIn = NoInput /\ InitA1Vars /\ InitL6Vars

UnitReceive(src) ==
    /\ prog = "bsunit" /\ calls < MaxCalls
    /\ calls' = calls + 1
    /\ discovered_devices' =
          BSOnReceive(discovered_devices, PDU("DEV-HELLO", src, 0, NoData))
    /\ schedule' = ScheduleAfterReceive(schedule, PDU("DEV-HELLO", src, 0, NoData))
    /\ discovered_ids' = CentralOnReceive(discovered_ids, PDU("HELLO", src, 0, NoData))
    /\ delivered' = delivered \cup {src}
    /\ arrival' = Append(arrival, src)
    /\ UNCHANGED <<prog, now, timers, channel, txDelay, macLog, lost, gotReq, mIn,
                   bpc, bwake, slot_number, schedule_frame_length,
                   start_delay, schedAt, txCount, lastTx, nCreate, nSched, builtFrom,
                   cpc, cwake, missing_ids, responded, nDiscovery, roundsDone>>

UnitCreateSchedule ==
    /\ prog = "bsunit" /\ bpc = "start"
    /\ schedule' = CreateSchedule(schedule, discovered_devices)
    /\ nCreate' = nCreate + 1
    /\ builtFrom' = discovered_devices
    /\ bpc' = "data"
    /\ UNCHANGED <<prog, now, timers, channel, txDelay, macLog, delivered, lost, gotReq,
                   calls, mIn, bwake, discovered_devices, slot_number,
                   schedule_frame_length, start_delay, schedAt, txCount, lastTx,
                   arrival, nSched, l6Vars>>

NextHarness ==
    \/ MacReceive
    \/ \E src \in Devices : UnitReceive(src)
    \/ UnitCreateSchedule

(* ---------------------------- specification --------------------------- *)
Init == InitA1 \/ InitLab06 \/ InitMac \/ InitBsUnit
Next == NextA1 \/ NextLab06 \/ NextHarness
Spec == Init /\ [][Next]_vars

\* The run of lab06 under the simulator's scheduling: sim.run() processes
\* the earliest pending event as long as one lies below the horizon, so a
\* run never stops while a step is possible.
FairLab06 == InitLab06 /\ [][NextLab06]_vars /\ WF_vars(NextLab06)

(* ============================== properties ============================ *)
Min(a, b) == IF a < b THEN a ELSE b

\* The device ids of a schedule, and the slot a schedule gives a device.
ScheduledIds == {schedule[i][1] : i \in 1..Len(schedule)}
SlotIn(d) == CHOOSE s \in 0..Len(schedule) : <<d, s>> \in Range(schedule)

\* d has received a schedule message that lists it.
Found(d) == schedAt[d] # None /\ d \in ScheduledIds

\* The frame of the broadcast schedule, and the k-th instant of d's slot.
Frame == Len(schedule) * SLOT_DURATION
Instant(d, k) ==
    schedAt[d] + SCHED_START_DELAY + SlotIn(d) * SLOT_DURATION + k * Frame

\* How many of the instants first, first + frame, ... lie below bound.
CountBelow(first, frame, bound) ==
    IF first >= bound THEN 0 ELSE (bound - 1 - first) \div frame + 1

\* The clock has passed every event before now; of the events at now, d's
\* transmission has fired unless its timer is still pending.
Passed(d) ==
    IF \E t \in timers : t.node = d /\ t.fn = "send_data" /\ t.at <= now
    THEN now ELSE now + 1

\* C1: a device that finds its entry in the schedule received at time T
\* transmits DATA exactly at T + startDelay + slot*slotDuration + k*frameLength,
\* k = 0, 1, ..., as long as that instant is below the horizon: in every state
\* its transmissions so far are the instants that have passed, the latest one
\* is the latest such instant, and when the run is over they are all the
\* instants below the horizon.
C1_TransmitInstants ==
    \A d \in Devices : Found(d) =>
        LET due == CountBelow(Instant(d, 0), Frame, Min(SIM_DURATION, Passed(d)))
        IN  /\ txCount[d] = due
            /\ lastTx[d] = (IF due = 0 THEN None ELSE Instant(d, due - 1))
            /\ SimEnded => txCount[d] = CountBelow(Instant(d, 0), Frame, SIM_DURATION)

C1_Witness ==
    /\ prog = "a1" /\ SimEnded
    /\ \E d \in Devices : Found(d) /\ SlotIn(d) >= 1 /\ txCount[d] >= 2

\* The slot whose window holds instant t, counted from receipt time T.
SlotAt(t, T) == ((t - T - SCHED_START_DELAY) % Frame) \div SLOT_DURATION

\* C2: two distinct devices that received the same schedule at the same time
\* never transmit in each other's slot window: every transmission lies in a
\* window of the sender's own slot, in none of the other device's, and no two
\* devices transmit at the same instant.
C2_NoCollision ==
    \A d, e \in Devices :
        (d # e /\ Found(d) /\ Found(e) /\ schedAt[d] = schedAt[e] /\ lastTx[d] # None) =>
            /\ lastTx[d] >= schedAt[e] + SCHED_START_DELAY
            /\ SlotAt(lastTx[d], schedAt[e]) = SlotIn(d)
            /\ SlotAt(lastTx[d], schedAt[e]) # SlotIn(e)
            /\ lastTx[d] # lastTx[e]

C2_Witness ==
    /\ prog = "a1"
    /\ \E d, e \in Devices :
         d # e /\ Found(d) /\ Found(e) /\ txCount[d] >= 2 /\ txCount[e] >= 2

\* C3: the slot indices of the coordinator's schedule are 0, 1, ..., one per
\* device discovered when the schedule was built, and no device id has two
\* entries, whatever responses were received, repeated ones included.
C3_SlotsContiguous ==
    /\ \A i \in 1..Len(schedule) : schedule[i][2] = i - 1
    /\ \A i, j \in 1..Len(schedule) : schedule[i][1] = schedule[j][1] => i = j
    /\ bpc = "data" => /\ Len(schedule) = Len(builtFrom)
                       /\ \A i \in 1..Len(schedule) : schedule[i][1] = builtFrom[i]
                       /\ Len(builtFrom) <= Len(discovered_devices)
                       /\ \A i \in 1..Len(builtFrom) : builtFrom[i] = discovered_devices[i]
    /\ bpc # "data" => schedule = <<>>

C3_Witness ==
    /\ prog = "bsunit" /\ bpc = "data"
    /\ Len(schedule) >= 2 /\ calls > Len(discovered_devices)

Partition ==
    /\ Range(discovered_ids) \cap Range(missing_ids) = {}
    /\ Range(discovered_ids) \cup Range(missing_ids) = Devices

\* C4: at the end of every discovery round, where missing_ids has just been
\* recomputed, discovered_ids and missing_ids are disjoint and together hold
\* every device id.
C4_RoundPartition == [][roundsDone' # roundsDone => Partition']_vars

C4_Witness ==
    /\ prog = "lab06" /\ roundsDone >= 2
    /\ discovered_ids # <<>> /\ missing_ids # <<>>

\* C5: a device that received a schedule message not listing it has no slot,
\* has no transmission timer armed and has sent no DATA.
C5_UnlistedSilent ==
    \A d \in Devices : (schedAt[d] # None /\ d \notin ScheduledIds) =>
        /\ slot_number[d] = None
        /\ txCount[d] = 0
        /\ ~ \E t \in timers : t.node = d /\ t.fn = "send_data"

C5_Witness ==
    /\ prog = "a1" /\ SimEnded
    /\ \E d, e \in Devices :
         schedAt[d] # None /\ d \notin ScheduledIds /\ txCount[e] > 0

Decisions == {"deliver", "drop", "default"}

SameInput(e1, e2) ==
    /\ e1.mac = e2.mac /\ e1.type = e2.type
    /\ e1.dest = e2.dest /\ e1.node = e2.node

C8_DataDispatch ==
    \A e \in macLog : (e.mac = "a1" /\ e.type = "DATA") =>
        e.decision = (IF e.node = 0 /\ e.dest = 0 THEN "deliver" ELSE "default")

C8_Witness ==
    /\ prog = "a1"
    /\ \E e \in macLog : e.type = "DATA" /\ e.node = 0 /\ e.decision = "deliver"
    /\ \E e \in macLog : e.type = "DATA" /\ e.node # 0 /\ e.decision = "default"

\* The DISCOVERY broadcasts that fit below the horizon: one at
\* DISCOVERY_DURATION, then one every DISCOVERY_DURATION + RETRY_DISCOVERY_INTERVAL.
L6MaxBroadcasts ==
    CountBelow(L6_DISCOVERY_DURATION,
               L6_DISCOVERY_DURATION + L6_RETRY_DISCOVERY_INTERVAL, L6_SIM_UNTIL)

\* C9 as stated: the discovery loop terminates in every execution, so when
\* the run is over CentralNode.run has left its loop.
C9_LoopTerminates == (prog = "lab06" /\ SimEnded) => cpc = "done"

\* C9, amended: the loop ends exactly on convergence (missing_ids empty);
\* there is no retry count, and what bounds the DISCOVERY broadcasts of a run
\* that does not converge is the simulation horizon.
C9_BoundedByHorizon ==
    /\ nDiscovery <= L6MaxBroadcasts
    /\ cpc = "done" <=> missing_ids = <<>>
    /\ cpc = "done" => Range(discovered_ids) = Devices

C9_Witness ==
    /\ prog = "lab06" /\ SimEnded
    /\ nDiscovery = L6MaxBroadcasts /\ missing_ids # <<>> /\ cpc # "done"

FrameStart(d) == schedAt[d] + SCHED_START_DELAY
FramesBelow(d, bound) ==
    IF FrameStart(d) + Frame > bound THEN 0 ELSE (bound - FrameStart(d)) \div Frame

\* An a1 run in which no PDU was lost so far; the jitter bound is below the
\* discovery window.
NoLoss == prog = "a1" /\ ~lost /\ HELLO_TIMEOUT < DISCOVERY_DURATION

\* C11: end to end, every device in range, no message lost, the jitter bound
\* below the discovery window: after the discovery round every device is in
\* the schedule, the slots are 0..n-1 in the order the responses arrived,
\* and each device transmits exactly once in every frame below the horizon:
\* its j-th transmission lies in frame j-1, and no frame that has passed
\* (at the end of the run: no frame below the horizon) is left out.
C11_EndToEnd ==
    (NoLoss /\ bpc = "data") =>
        /\ ScheduledIds = Devices
        /\ {schedule[i][2] : i \in 1..Len(schedule)} = 0..(NUM_DEVICES - 1)
        /\ Len(arrival) = NUM_DEVICES
        /\ \A i \in 1..Len(schedule) : schedule[i] = <<arrival[i], i - 1>>
        /\ \A d \in Devices : schedAt[d] # None =>
              LET full == FramesBelow(d, Min(now, SIM_DURATION))
              IN  /\ full <= txCount[d] /\ txCount[d] <= full + 1
                  /\ txCount[d] > 0 =>
                        /\ lastTx[d] >= FrameStart(d)
                        /\ (lastTx[d] - FrameStart(d)) \div Frame = txCount[d] - 1
        /\ SimEnded => \A d \in Devices :
              schedAt[d] # None /\ txCount[d] >= FramesBelow(d, SIM_DURATION)

C11_Witness ==
    /\ NoLoss /\ SimEnded /\ arrival # <<>> /\ arrival[1] # 1
    /\ \A d \in Devices : txCount[d] >= FramesBelow(d, SIM_DURATION)
    /\ \E d \in Devices : txCount[d] > FramesBelow(d, SIM_DURATION)
    /\ \A d \in Devices : FramesBelow(d, SIM_DURATION) >= 2
\* The ids of a sequence of responses in the order of their first arrival.
RECURSIVE FirstArrivals(_)
FirstArrivals(seq) ==
    IF seq = <<>> THEN <<>>
    ELSE LET front == FirstArrivals(SubSeq(seq, 1, Len(seq) - 1))
             last == seq[Len(seq)]
         IN  IF last \in Range(front) THEN front ELSE Append(front, last)

\* The schedule the arrival order arr stands for: entry i (from 0) is the
\* i-th id to arrive, with slot i.
ScheduleOf(arr) ==
    [i \in 1..Len(FirstArrivals(arr)) |-> <<FirstArrivals(arr)[i], i - 1>>]

\* C12: the schedule is a function of the order in which the responses were
\* accepted: whenever create_schedule runs, in the run of a1 or called after
\* any sequence of responses, the schedule it leaves is ScheduleOf that
\* order, so two runs with the same order (ties resolved alike) build the
\* same schedule.
C12_ScheduleFromArrivalOrder ==
    [][nCreate' # nCreate => schedule' = ScheduleOf(arrival)]_vars

C12_Witness ==
    /\ prog = "a1" /\ nCreate = 1
    /\ Len(schedule) = NUM_DEVICES /\ schedule[1][1] > schedule[2][1]
\* The schedule messages in the air.
SchedInAir == {c \in channel : c.pdu.type = "SCHED"}

\* C13: create_schedule runs at most once and at most one SCHED message is
\* sent, in the run of a1 exactly one of each by the end of the discovery
\* window; the message carries num_devices = the number of entries of its
\* dev_slots (the schedule) and start_delay, which is what its receivers
\* take from it.
C13_BuiltAndSentOnce ==
    /\ nCreate <= 1 /\ nSched <= 1
    /\ Cardinality(SchedInAir) <= nSched
    /\ prog = "a1" => /\ nSched = nCreate
                      /\ nCreate = 1 <=> bpc = "data"
                      /\ nCreate = 1 <=> now >= BS_START_WAIT + DISCOVERY_DURATION
    /\ (prog = "a1" /\ SimEnded) => nCreate = 1 /\ nSched = 1 /\ SchedInAir = {}
    /\ \A c \in SchedInAir :
          /\ c.pdu.data.dev_slots = schedule
          /\ c.pdu.data.num_devices = Len(c.pdu.data.dev_slots)
          /\ c.pdu.data.start_delay = SCHED_START_DELAY
    /\ \A d \in Devices : schedAt[d] # None =>
          /\ schedule_frame_length[d] = Len(schedule) * SLOT_DURATION
          /\ start_delay[d] = SCHED_START_DELAY

C13_Witness ==
    /\ prog = "a1" /\ SimEnded /\ nCreate = 1 /\ nSched = 1
    /\ schedule # <<>> /\ Len(schedule) < NUM_DEVICES
    /\ \A d \in Devices : schedAt[d] # None
\* C14: from the step that builds the schedule (and, in the run, broadcasts
\* it) no step changes the coordinator's schedule, and the dev_slots of the
\* message in the air stay equal to it, also when responses arrive after
\* the build and extend discovered_devices.
C14_ScheduleImmutable ==
    [][nCreate > 0 =>
          /\ schedule' = schedule
          /\ \A c \in SchedInAir' : c.pdu.data.dev_slots = schedule]_vars

C14_Witness ==
    /\ prog = "bsunit" /\ nCreate = 1 /\ schedule # <<>>
    /\ Len(discovered_devices) > Len(builtFrom)
    /\ Len(schedule) = Len(builtFrom)
DiscoveryInAir == {c \in channel : c.pdu.type = "DISCOVERY"}

\* C16: the step that broadcasts a discovery request puts one request in
\* the air; the first one carries every device id, and each one carries, at
\* that instant, exactly the ids that are not in discovered_ids.
C16_RequestCarriesMissing ==
    [][nDiscovery' # nDiscovery =>
          /\ Cardinality(DiscoveryInAir' \ DiscoveryInAir) = 1
          /\ \A c \in DiscoveryInAir' \ DiscoveryInAir :
                /\ Range(c.pdu.data.ids) \cap Range(discovered_ids') = {}
                /\ Devices \ Range(discovered_ids') \subseteq Range(c.pdu.data.ids)
                /\ nDiscovery = 0 => c.pdu.data.ids = [i \in 1..NUM_DEVICES |-> i]]_vars

C16_Witness ==
    /\ prog = "lab06" /\ nDiscovery >= 2
    /\ \E c \in DiscoveryInAir :
          c.pdu.data.ids # <<>> /\ Len(c.pdu.data.ids) < NUM_DEVICES
\* The step hands the discovery request c to its receivers.
DeliversRequest(c) ==
    /\ c \in DiscoveryInAir /\ now' = c.at
    /\ \A c2 \in channel' : c2.pdu # c.pdu

\* The devices whose on_receive_pdu the step calls on a discovery request,
\* and the responses the step schedules for d.
HandedRequest ==
    {e.node : e \in {x \in macLog' : x.type = "DISCOVERY" /\ x.decision = "deliver"}}
    \cap Devices
NewResponses(d) == {t \in timers' \ timers : t.node = d /\ t.fn = "send_hello"}

\* C17: a device handed a discovery request schedules a response exactly
\* when it had received no request before or its id is in the payload, and
\* then exactly one, within the jitter bound; a device that had received one
\* before and is not listed schedules none, and a device the request misses
\* schedules none.
C17_RespondsIffFirstOrListed ==
    [][\A c \in channel : (prog = "lab06" /\ DeliversRequest(c)) =>
          \A d \in Devices :
             /\ Cardinality(NewResponses(d)) =
                   (IF d \in HandedRequest
                       /\ (~gotReq[d] \/ d \in Range(c.pdu.data.ids))
                    THEN 1 ELSE 0)
             /\ \A t \in NewResponses(d) :
                   now' <= t.at /\ t.at <= now' + L6_HELLO_TIMEOUT]_vars

C17_Witness ==
    /\ prog = "lab06" /\ nDiscovery >= 2 /\ DiscoveryInAir = {}
    /\ \E d, e \in Devices :
          /\ gotReq[d] /\ d \notin Range(missing_ids)
          /\ ~ \E t \in timers : t.node = d
          /\ e \in Range(missing_ids) /\ \E t \in timers : t.node = e
\* C18 as stated, on a channel that is fair to every device (one response
\* of each has reached the coordinator): when the run is over the
\* coordinator has left the discovery loop with missing_ids empty.
C18_FairChannelConverges ==
    (prog = "lab06" /\ SimEnded /\ delivered = Devices) =>
        (cpc = "done" /\ missing_ids = <<>>)

\* C18, amended: once a response of every device has reached the
\* coordinator in a round that is not the last one the horizon allows, the
\* coordinator eventually leaves the loop, with missing_ids empty and
\* discovered_ids the full device set, and from then on broadcasts no
\* discovery request; every run ends in that state or at the horizon.
C18_ConvergesBelowHorizon ==
    /\ (delivered = Devices /\ nDiscovery < L6MaxBroadcasts) ~> (cpc = "done")
    /\ [](cpc = "done" => (missing_ids = <<>> /\ Range(discovered_ids) = Devices))
    /\ [][cpc = "done" => (cpc' = "done" /\ nDiscovery' = nDiscovery
                            /\ DiscoveryInAir' = {})]_vars
    /\ <>(cpc = "done" \/ SimEnded)

C18_Witness ==
    /\ prog = "lab06" /\ cpc = "done" /\ lost /\ roundsDone >= 2
    /\ nDiscovery < L6MaxBroadcasts
\* The instant the discovery window of a1 ends.
WindowEnd == BS_START_WAIT + DISCOVERY_DURATION

\* C19: the phases of a run of a1 come in order.  A device sends (or has a
\* timer to send) a DEV-HELLO only after it was handed the BS-HELLO; the
\* SCHED message is sent only when the discovery window has ended; a device
\* sends DATA (or has a timer to) only after it received the SCHED message,
\* and not before the first instant of its slot; and the ids the schedule
\* holds when it is built are ids whose response had reached the base
\* station before.
C19_PhaseOrder ==
    /\ [](prog = "a1" =>
            /\ \A c \in channel : c.pdu.type = "DEV-HELLO" => gotReq[c.pdu.src]
            /\ \A t \in timers : t.fn = "send_hello" => gotReq[t.node]
            /\ \A d \in delivered : gotReq[d]
            /\ nSched > 0 => (now >= WindowEnd /\ bpc = "data")
            /\ \A c \in SchedInAir : c.at >= WindowEnd
            /\ \A d \in Devices : schedAt[d] # None => schedAt[d] >= WindowEnd
            /\ \A c \in channel : c.pdu.type = "DATA" => schedAt[c.pdu.src] # None
            /\ \A t \in timers : t.fn = "send_data" =>
                  (schedAt[t.node] # None /\ t.at >= FrameStart(t.node))
            /\ \A d \in Devices : txCount[d] > 0 =>
                  (schedAt[d] # None /\ lastTx[d] >= FrameStart(d))
            /\ ScheduledIds \subseteq delivered)
    /\ [][nCreate' # nCreate =>
             (ScheduledIds' \subseteq delivered /\ delivered' = delivered)]_vars

C19_Witness ==
    /\ prog = "a1" /\ SimEnded /\ nSched = 1
    /\ \E d, e \in Devices :
          /\ gotReq[e] /\ e \notin delivered /\ e \notin ScheduledIds
          /\ d \in delivered /\ txCount[d] > 1
\* s is an initial part of t; s holds no element twice.
IsPrefix(s, t) == Len(s) <= Len(t) /\ SubSeq(t, 1, Len(s)) = s
NoRepeat(s) == \A i, j \in 1..Len(s) : s[i] = s[j] => i = j

\* C20: discovery only progresses.  No step takes an id out of
\* discovered_ids (lab06) or discovered_devices (a1) or reorders it, no id is
\* in it twice, whatever responses arrive, and the missing_ids of each round,
\* which its request carries, are among those of the round before.
C20_MonotoneDiscovery ==
    [][/\ IsPrefix(discovered_ids, discovered_ids')
       /\ NoRepeat(discovered_ids')
       /\ IsPrefix(discovered_devices, discovered_devices')
       /\ NoRepeat(discovered_devices')
       /\ Range(missing_ids') \subseteq Range(missing_ids)
       /\ \A c \in DiscoveryInAir' : Range(c.pdu.data.ids) \subseteq Range(missing_ids)]_vars

C20_Witness ==
    /\ prog = "lab06" /\ roundsDone >= 2 /\ nDiscovery >= 3
    /\ Len(discovered_ids) >= 2 /\ missing_ids # <<>>
    /\ Len(missing_ids) < NUM_DEVICES - 1
=============================================================================
